---- MODULE Spec2Model ----
(***************************************************************************)
(* Resilient-execution layer of billing_services: the registry of circuit  *)
(* breakers (utils/circuit_breaker.py), the aiobreaker state machine the   *)
(* registry instantiates, the with_circuit_breaker wrapper, the            *)
(* ExternalServiceException type and OpenMeterMeteringClient.create_feature*)
(***************************************************************************)
EXTENDS Integers, Sequences, FiniteSets, TLC

\* ------------------------------------------------------------------------
\* Bounds of the model
\* ------------------------------------------------------------------------
\* the clock advances in steps of TickStep seconds up to MaxNow
TickStep == 15
MaxNow == 60
\* at most MaxCalls calls are made through the wrappers
MaxCalls == 6
\* threads that call get_circuit_breaker at the same time
NumThreads == 3

\* callers that use one breaker at the same time
NumCallers == 2

\* calls admitted between two moments at which no call is in flight
MaxBatch == 3
\* at most MaxPayCalls calls are made on the payment service
MaxPayCalls == 4

\* ------------------------------------------------------------------------
\* Values
\* ------------------------------------------------------------------------
\* Python's None
None == "None"

\* dependency names used as registry keys
Names == {"OpenMeter", "MeteringService"}

\* fallback_value arguments of with_circuit_breaker (None: not configured)
Fallbacks == {None, "fb1", "fb2"}

\* feature keys known to the metering service
FeatureKeys == {"tokens"}

\* fail_max=3 of the breakers the registry creates
fail_max == 3

\* timeout_duration=timedelta(seconds=30) of the breakers the registry creates
timeout_duration == 30

\* An exception value: its class, its message (the set of the text fragments
\* str(e) contains), and the attributes BaseServiceException adds.
Exc(type, detail, service_name, error_code, status_code) ==
    [type |-> type, detail |-> detail, service_name |-> service_name,
     error_code |-> error_code, status_code |-> status_code]

\* no exception
NoExc == Exc(None, {}, None, None, 0)

\* BaseServiceException.__init__ as called by ExternalServiceException:
\* status 502 and the fixed error code
ExternalServiceException(detail, service_name) ==
    Exc("ExternalServiceException", detail, service_name, "EXTERNAL_SERVICE_ERROR", 502)

\* aiobreaker.CircuitBreakerError
CircuitBreakerError == Exc("CircuitBreakerError", {"circuit breaker"}, None, None, 0)

\* outcome of a call: a returned value or a raised exception
Return(v) == [kind |-> "return", value |-> v, exc |-> NoExc]
Raise(e) == [kind |-> "raise", value |-> None, exc |-> e]

\* f'Service {service_name} is currently unavailable'
UnavailableDetail(service_name) == {"Service ", service_name, " is currently unavailable"}

\* ------------------------------------------------------------------------
\* State
\* ------------------------------------------------------------------------
VARIABLES
    circuit_breakers,   \* the registry dict: service name -> breaker
    now,                \* the clock (seconds)
    calls,              \* number of calls made through the wrappers
    invocations,        \* call counter of the wrapped operations
    run,                \* per name: invoked operations that failed in a row
    features,           \* feature keys the metering service holds
    last,               \* what the most recent call through a wrapper did
    registry,           \* _circuit_breakers by identity: name -> breaker object
    threads,            \* per thread: its place in get_circuit_breaker
    payments,           \* OpenMeterPaymentClient.payments: id -> Payment
    events,             \* number of events the payment client has ingested
    pay_calls,          \* number of calls made on the payment service
    pay_last,           \* what the most recent payment service call did
    subjects,           \* subject ids the metering service holds
    subj_last,          \* what the most recent subject operation did
    ensure_last,        \* what the most recent ensure_features run did
    flight,             \* per caller: its place in CircuitBreaker.call
    completed,          \* outcomes of the operations, in completion order
    base,               \* the breaker when the calls in flight began
    recovered           \* the dependencies fail no more

vars == <<circuit_breakers, now, calls, invocations, run, features, last,
          registry, threads, payments, events, pay_calls, pay_last,
          subjects, subj_last, ensure_last, flight, completed, base,
          recovered>>

\* the state of concurrent registry access
regVars == <<registry, threads>>

\* the state of the payment client
payVars == <<payments, events, pay_calls, pay_last>>

\* the state of the subject operations
subjVars == <<subjects, subj_last>>

\* the state of the calls in flight on one breaker
concVars == <<flight, completed, base>>

\* the state the calls through the wrappers leave alone
auxVars == <<regVars, payVars, subjVars, ensure_last, concVars, recovered>>

\* ------------------------------------------------------------------------
\* The breaker (aiobreaker.CircuitBreaker with CircuitMemoryStorage)
\* ------------------------------------------------------------------------
\* opened_at is <<>> for None and <<t>> for the time t
Breaker(state, counter, opened_at) ==
    [state |-> state, counter |-> counter, opened_at |-> opened_at]

\* aiobreaker.CircuitBreaker(name=service_name, fail_max=3, timeout_duration=30s)
NewBreaker == Breaker("closed", 0, <<>>)

\* variant of Open: a breaker that re-opens keeps its first opened_at
OpenM(b, t) == Breaker("open", b.counter, IF b.opened_at = <<>> THEN <<t>> ELSE b.opened_at)

\* CircuitBreaker.open(): opened_at = now, state = OPEN
Open(b, t) == Breaker("open", b.counter, <<t>>)

\* variant of HalfOpen: the breaker is left Open
HalfOpenM(b) == Breaker("open", b.counter, b.opened_at)

\* CircuitBreaker.half_open()
HalfOpen(b) == Breaker("half-open", b.counter, b.opened_at)

\* variant of Close: all failures but one carry over
CloseCarry(b) == Breaker("closed", fail_max - 1, b.opened_at)

\* variant of Close: the counter is kept
CloseM(b) == Breaker("closed", b.counter, b.opened_at)

\* CircuitBreaker.close(): the closed state is entered with notify, which
\* resets the counter
Close(b) == Breaker("closed", 0, b.opened_at)

\* variant of StillOpen: still rejected at opened_at + timeout
StillOpenM(b, t) ==
    b.opened_at # <<>> /\ t <= b.opened_at[1] + timeout_duration

\* CircuitOpenState.before_call raises CircuitBreakerError:
\* opened_at and now < opened_at + timeout
StillOpen(b, t) ==
    b.opened_at # <<>> /\ t < b.opened_at[1] + timeout_duration

\* The result of CircuitBreaker.call: the breaker afterwards, whether func
\* was invoked, what call returned or raised, the states passed through.
CallResult(b, invoked, out, path) ==
    [breaker |-> b, invoked |-> invoked, out |-> out, path |-> path]

\* variant of HandleSuccess: a success in the closed state keeps the counter
HandleSuccessM(b) ==
    IF b.state = "half-open" THEN Close(b) ELSE b

\* _handle_success: reset_counter(), then on_success() of the state
HandleSuccess(b) ==
    IF b.state = "half-open" THEN Close(b)
    ELSE Breaker(b.state, 0, b.opened_at)

\* variant of Tripped: opens one failure later
TrippedM(b) == b.counter > fail_max

\* variant of Tripped: opens one failure earlier
TrippedEarly(b) == b.counter >= fail_max - 1

\* CircuitClosedState.on_failure: counter >= fail_max opens the breaker
Tripped(b) == b.counter >= fail_max

\* variant of HandleError: the failure is counted twice
HandleErrorM(b, t, f) ==
    LET c == Breaker(b.state, b.counter + 2, b.opened_at)
    IN  IF c.state = "half-open" \/ Tripped(c)
        THEN <<Open(c, t), Raise(CircuitBreakerError)>>
        ELSE <<c, f>>

\* _handle_error: _inc_counter(), then on_failure() of the state; on_failure
\* opens the breaker and raises CircuitBreakerError, otherwise the exception
\* of func is raised again.  The pair is <<breaker, outcome>>.
HandleError(b, t, f) ==
    LET c == Breaker(b.state, b.counter + 1, b.opened_at)
    IN  IF c.state = "half-open" \/ Tripped(c)
        THEN <<Open(c, t), Raise(CircuitBreakerError)>>
        ELSE <<c, f>>

\* CircuitBreakerBaseState.call in the closed or half-open state: func is
\* invoked and its outcome f is accounted
StateCall(b, t, f, path) ==
    IF f.kind = "return"
    THEN LET s == HandleSuccess(b)
         IN  CallResult(s, TRUE, f, path \o (IF s.state # b.state THEN <<s.state>> ELSE <<>>))
    ELSE LET e == HandleError(b, t, f)
         IN  CallResult(e[1], TRUE, e[2], path \o (IF e[1].state # b.state THEN <<e[1].state>> ELSE <<>>))

\* variant of BreakerCall: a rejected call restarts the timeout window
BreakerCallM(b, t, f) ==
    IF b.state = "open"
    THEN IF StillOpen(b, t)
         THEN CallResult(Open(b, t), FALSE, Raise(CircuitBreakerError), <<"open">>)
         ELSE StateCall(HalfOpen(b), t, f, <<"open", "half-open">>)
    ELSE StateCall(b, t, f, <<b.state>>)

\* CircuitBreaker.call(func): f is what func does if it is invoked.
\* CircuitOpenState.call: before_call, half_open(), then the call again.
BreakerCall(b, t, f) ==
    IF b.state = "open"
    THEN IF StillOpen(b, t)
         THEN CallResult(b, FALSE, Raise(CircuitBreakerError), <<"open">>)
         ELSE StateCall(HalfOpen(b), t, f, <<"open", "half-open">>)
    ELSE StateCall(b, t, f, <<b.state>>)

\* ------------------------------------------------------------------------
\* The registry and the wrapper (utils/circuit_breaker.py)
\* ------------------------------------------------------------------------
\* variant of get_circuit_breaker: every call installs a new breaker
get_circuit_breakerM(reg, service_name) ==
    [n \in DOMAIN reg \cup {service_name} |->
        IF n = service_name THEN NewBreaker ELSE reg[n]]

\* get_circuit_breaker: the registry after the call; the breaker returned is
\* the entry of service_name in it
get_circuit_breaker(reg, service_name) ==
    IF service_name \notin DOMAIN reg
    THEN [n \in DOMAIN reg \cup {service_name} |->
            IF n = service_name THEN NewBreaker ELSE reg[n]]
    ELSE reg

\* a wrapper, the closure decorator(func) returns
Wrapper(service_name, fallback_value) ==
    [service_name |-> service_name, fallback_value |-> fallback_value]

\* variant of with_circuit_breaker: the fallback value is ignored
with_circuit_breakerNoFallback(service_name, fallback_value, r) ==
    IF r.out.kind = "raise" /\ r.out.exc.type = "CircuitBreakerError"
    THEN Raise(ExternalServiceException(UnavailableDetail(service_name), service_name))
    ELSE r.out
\* variant of with_circuit_breaker: the failure does not name the service
with_circuit_breakerNoName(service_name, fallback_value, r) ==
    IF r.out.kind = "raise" /\ r.out.exc.type = "CircuitBreakerError"
    THEN IF fallback_value # None
         THEN Return(fallback_value)
         ELSE Raise(ExternalServiceException(UnavailableDetail(service_name), None))
    ELSE r.out

\* wrapper(*args): r is the result of breaker.call(func, *args); a
\* CircuitBreakerError gives the fallback value or ExternalServiceException,
\* anything else func returned or raised passes
with_circuit_breaker(service_name, fallback_value, r) ==
    IF r.out.kind = "raise" /\ r.out.exc.type = "CircuitBreakerError"
    THEN IF fallback_value # None
         THEN Return(fallback_value)
         ELSE Raise(ExternalServiceException(UnavailableDetail(service_name), service_name))
    ELSE r.out

\* ------------------------------------------------------------------------
\* The wrapped operations
\* ------------------------------------------------------------------------
\* what the collaborator (the vendor client) does with a request
RawOutcomes == {"ok", "connection", "timeout", "http5xx", "conflict", "value_error"}

\* what awaiting an asynchronous operation can give besides: the caller
\* cancels it (asyncio.CancelledError is raised at the await)
AsyncOutcomes == RawOutcomes \cup {"cancelled"}

\* the outcomes of the synchronous operations that run beside asynchronous
\* ones
SyncOutcomes == {"ok", "connection"}

\* the failure the collaborator raises; the detail is the set of the text
\* fragments its message holds
RawFailure(raw) ==
    CASE raw = "connection" -> Exc("ServiceRequestError", {"connection refused"}, None, None, 0)
      [] raw = "timeout" -> Exc("TimeoutError", {"timed out"}, None, None, 0)
      [] raw = "http5xx" -> Exc("HttpResponseError", {"Service Unavailable"}, None, None, 503)
      [] raw = "conflict" -> Exc("HttpResponseError", {"Conflict"}, None, None, 409)
      [] raw = "exists" -> Exc("HttpResponseError", {"Conflict", "already exists"}, None, None, 409)
      [] raw = "value_error" -> Exc("ValueError", {"invalid argument"}, None, None, 0)
      [] raw = "cancelled" -> Exc("CancelledError", {"cancelled"}, None, None, 0)

\* the classes of failure that tell of the dependency's health
TranslatedTypes == {"ServiceRequestError", "TimeoutError", "HttpResponseError"}

\* handle_openmeter_errors, the error classifier: a failure of the
\* dependency is translated into ExternalServiceException carrying the
\* dependency name and the original message, any other passes unchanged
Classify(e, service_name) ==
    IF e.type \in TranslatedTypes
    THEN Raise(ExternalServiceException(e.detail, service_name))
    ELSE Raise(e)

\* a wrapped operation: one outbound call, its failure classified
Operation(raw, service_name) ==
    IF raw = "ok" THEN Return("result")
    ELSE Classify(RawFailure(raw), service_name)

\* the metering service's answer to create_feature(feature_key): a key it
\* holds already is a conflict
CreateFeatureRaw(held, feature_key, raw) ==
    IF raw = "ok" /\ feature_key \in held THEN "exists" ELSE raw

\* variant of Swallowed: no failure is swallowed
SwallowedM(e) == FALSE

\* OpenMeterMeteringClient.create_feature: _create_feature swallows the
\* failure whose text holds "Conflict" and "already exists" and returns None
Swallowed(e) == "Conflict" \in e.detail /\ "already exists" \in e.detail

create_feature(raw) ==
    IF raw = "ok" THEN Return(None)
    ELSE IF Swallowed(RawFailure(raw)) THEN Return(None)
    ELSE Classify(RawFailure(raw), "OpenMeter")

\* with_resilient_execution(service_name): the resilient call wrapper of the
\* client methods; the breaker gates the call and no fallback is configured
with_resilient_execution(service_name, r) ==
    with_circuit_breaker(service_name, None, r)

\* ------------------------------------------------------------------------
\* Initial state and actions
\* ------------------------------------------------------------------------
NoOutcome == [kind |-> "none", value |-> None, exc |-> NoExc]

\* the record of one call through a wrapper: the wrapper's arguments, the
\* breaker before the call, what the collaborator answered, whether func was invoked and with what outcome,
\* what the caller got, the breaker states the call passed through
CallRecord(op, w, pre, raw, f, r, result) ==
    [op |-> op, service_name |-> w.service_name, fallback_value |-> w.fallback_value,
     pre |-> pre, raw |-> IF r.invoked THEN raw ELSE None, invoked |-> r.invoked,
     func |-> IF r.invoked THEN f ELSE NoOutcome,
     result |-> result, path |-> r.path]

\* ------------------------------------------------------------------------
\* The payment client (clients/payment/openmeter_payment_client.py) and the
\* payment service (services/payment_service.py)
\* ------------------------------------------------------------------------
\* payment ids (uuid4 values)
PaymentIds == {"p1", "p2"}

\* PaymentEvent.amount of the payments processed
PayAmounts == {100}

\* the amount argument of refund_payment: <<>> is None (omitted)
RefundAmounts == {<<>>, <<40>>, <<100>>, <<150>>}

\* the status argument of update_payment_status
Statuses == {"failed"}

\* what sync_client.ingest_events does
IngestOutcomes == {"ok", "connection"}

\* Optional[Dict] metadata: None, or a dict given as its set of items
Metadata(is_none, items) == [is_none |-> is_none, items |-> items]
NoMetadata == Metadata(TRUE, {})

\* PaymentEvent.metadata of the payments processed
EventMetadata == {NoMetadata, Metadata(FALSE, {<<"note", 1>>})}

\* the Payment model: the fields the client reads and writes
Payment(amount, status, metadata) ==
    [amount |-> amount, status |-> status, metadata |-> metadata]

\* the None that get_payment returns for an id the store does not hold
NoPayment == Payment(0, None, NoMetadata)

\* ValueError(f'Payment with ID {payment_id} not found')
PaymentNotFound(payment_id) ==
    Exc("ValueError", {"Payment with ID ", payment_id, " not found"}, None, None, 0)

\* the outcome of a client method: what it returned or raised, the store
\* afterwards, the number of events it had ingested
Client(out, store, sent) == [out |-> out, store |-> store, sent |-> sent]

\* self.payments[str(payment_id)] = payment
Store(store, payment_id, payment) ==
    [id \in DOMAIN store \cup {payment_id} |->
        IF id = payment_id THEN payment ELSE store[id]]

\* process_payment: the event is ingested, then the payment is stored under
\* the new id with status 'processed'; a failure of the ingestion is raised
process_payment(store, payment_id, amount, metadata, ingest) ==
    IF ingest # "ok" THEN Client(Raise(RawFailure(ingest)), store, 0)
    ELSE LET payment == Payment(amount, "processed", metadata)
         IN  Client(Return(payment), Store(store, payment_id, payment), 1)

\* get_payment: self.payments.get(str(payment_id))
get_payment(store, payment_id) ==
    IF payment_id \in DOMAIN store THEN store[payment_id] ELSE NoPayment

\* payment.metadata = payment.metadata or {};
\* payment.metadata['refunded_amount'] = amount
SetRefundedAmount(metadata, amount) ==
    Metadata(FALSE, {i \in metadata.items : i[1] # "refunded_amount"}
                       \cup {<<"refunded_amount", amount>>})

\* variant of Refunded: a refund of the whole amount counts as partial
RefundedM(payment, amount) ==
    IF amount # <<>> /\ amount[1] <= payment.amount
    THEN Payment(payment.amount, "partially_refunded",
                 SetRefundedAmount(payment.metadata, amount[1]))
    ELSE Payment(payment.amount, "refunded", payment.metadata)

\* refund_payment, the update of the payment: status 'refunded', and
\* `if amount is not None and amount < payment.amount` 'partially_refunded'
\* with the amount kept in the metadata
Refunded(payment, amount) ==
    IF amount # <<>> /\ amount[1] < payment.amount
    THEN Payment(payment.amount, "partially_refunded",
                 SetRefundedAmount(payment.metadata, amount[1]))
    ELSE Payment(payment.amount, "refunded", payment.metadata)

\* variant of Missing: every payment is taken as stored
MissingM(store, payment_id) == FALSE

\* `if not payment` after payment = self.get_payment(payment_id)
Missing(store, payment_id) == get_payment(store, payment_id) = NoPayment

\* variant of refund_payment: the payment is updated before the event is
\* ingested
refund_paymentM(store, payment_id, amount, ingest) ==
    IF Missing(store, payment_id)
    THEN Client(Raise(PaymentNotFound(payment_id)), store, 0)
    ELSE LET payment == Refunded(get_payment(store, payment_id), amount)
         IN  IF ingest # "ok"
             THEN Client(Raise(RawFailure(ingest)), Store(store, payment_id, payment), 0)
             ELSE Client(Return(payment), Store(store, payment_id, payment), 1)

\* refund_payment: ValueError for an id the store does not hold; otherwise
\* the refund event is ingested, then the payment is updated and stored
refund_payment(store, payment_id, amount, ingest) ==
    IF Missing(store, payment_id)
    THEN Client(Raise(PaymentNotFound(payment_id)), store, 0)
    ELSE IF ingest # "ok" THEN Client(Raise(RawFailure(ingest)), store, 0)
    ELSE LET payment == Refunded(get_payment(store, payment_id), amount)
         IN  Client(Return(payment), Store(store, payment_id, payment), 1)

\* update_payment_status: ValueError for an id the store does not hold;
\* otherwise the status event is ingested, then the status is set and stored
update_payment_status(store, payment_id, status, ingest) ==
    IF Missing(store, payment_id)
    THEN Client(Raise(PaymentNotFound(payment_id)), store, 0)
    ELSE IF ingest # "ok" THEN Client(Raise(RawFailure(ingest)), store, 0)
    ELSE LET old == get_payment(store, payment_id)
             payment == Payment(old.amount, status, old.metadata)
         IN  Client(Return(payment), Store(store, payment_id, payment), 1)

\* a PaymentService method: the client's result is returned, its exception
\* is logged and raised again
PaymentService(out) ==
    IF out.kind = "raise" THEN Raise(out.exc) ELSE out

\* the record of one call on the payment service
PayCall(op, payment_id, amount, result) ==
    [op |-> op, payment_id |-> payment_id, amount |-> amount, result |-> result]

NoPayCall == PayCall(None, None, <<>>, NoOutcome)

\* ------------------------------------------------------------------------
\* The subject service (services/subject_service.py)
\* ------------------------------------------------------------------------
\* user ids
SubjectIds == {"u1", "u2"}

\* the user_id argument of the subject service methods; None with no request
\* falls back to self.user_id, which is None
UserIds == SubjectIds \cup {None}

\* azure.core.exceptions.ResourceNotFoundError
ResourceNotFoundError(subject_id) ==
    Exc("ResourceNotFoundError", {"Subject ", subject_id, " not found"}, None, None, 404)

\* ResourceNotFoundException(detail='User not found'): status 404 and the
\* fixed error code
ResourceNotFoundException(detail) ==
    Exc("ResourceNotFoundException", detail, None, "RESOURCE_NOT_FOUND", 404)

\* what awaiting the metering client's delete_subject(subject_id) gives: the
\* client's not-found error for a subject the metering service does not hold
ClientDeleteSubject(held, subject_id) ==
    IF subject_id \in held THEN Return(None)
    ELSE Raise(ResourceNotFoundError(subject_id))

\* a call of an `async def` method of the metering client: the call gives a
\* coroutine, and only awaiting it runs the method and gives its outcome
ClientCall(awaited, outcome) ==
    IF awaited THEN outcome ELSE Return("coroutine")

\* the outcome of a subject service method body, the subjects afterwards and
\* the number of calls it made of the client's method
SubjectResult(out, held, client_calls) ==
    [out |-> out, held |-> held, client_calls |-> client_calls]

\* SubjectService.delete_subject, the body: nothing without a user id; else
\* self.metering_client.delete_subject(str(user_id)) is called and not
\* awaited; ResourceNotFoundError is raised again as ResourceNotFoundException
delete_subject(held, user_id) ==
    IF user_id = None THEN SubjectResult(Return(None), held, 0)
    ELSE LET awaited == FALSE
             c == ClientCall(awaited, ClientDeleteSubject(held, user_id))
         IN  IF c.kind = "raise" /\ c.exc.type = "ResourceNotFoundError"
             THEN SubjectResult(Raise(ResourceNotFoundException({"User not found"})), held, 1)
             ELSE IF c.kind = "raise" THEN SubjectResult(c, held, 1)
             ELSE SubjectResult(Return(None),
                                IF awaited THEN held \ {user_id} ELSE held, 1)

\* SubjectService.create_subject, the body: nothing without a user id; else
\* self.metering_client.upsert_subject([subject.to_dict()]) is called and
\* not awaited
create_subject(held, user_id) ==
    IF user_id = None THEN SubjectResult(Return(None), held, 0)
    ELSE LET awaited == FALSE
             c == ClientCall(awaited, Return(None))
         IN  IF c.kind = "raise" THEN SubjectResult(c, held, 1)
             ELSE SubjectResult(Return(None),
                                IF awaited THEN held \cup {user_id} ELSE held, 1)

\* SubjectService.list_subjects, the body:
\* self.metering_client.list_subjects() is called and not awaited, and
\* len(subjects) is taken for the log message, which a coroutine refuses
list_subjects(held) ==
    LET awaited == FALSE
        c == ClientCall(awaited, Return("subjects"))
    IN  IF c.kind = "raise" THEN SubjectResult(c, held, 1)
        ELSE IF c.value = "coroutine"
        THEN SubjectResult(
                Raise(Exc("TypeError", {"object of type 'coroutine' has no len()"},
                          None, None, 0)), held, 1)
        ELSE SubjectResult(c, held, 1)

\* SubjectService.list_subjects_without_entitlement, the body after
\* `subjects = await self.list_subjects()`: what the wrapped list_subjects
\* raised leaves the body, and a list is returned otherwise
list_subjects_without_entitlement(listed) ==
    IF listed.kind = "raise" THEN listed ELSE Return("uuids")

\* list_subjects_without_entitlement under its wrapper, both wrappers on the
\* breaker b of one name: the outer breaker.call admits the call in the state
\* it finds, the body calls the wrapped list_subjects (body outcome f), which
\* is accounted on the same breaker, and the outer call then accounts the
\* outcome of its body in the state it was admitted in
NestedCall(service_name, b, t, f) ==
    IF b.state = "open" /\ StillOpen(b, t)
    THEN CallResult(b, FALSE, Raise(CircuitBreakerError), <<"open">>)
    ELSE LET admitted == IF b.state = "open" THEN HalfOpen(b) ELSE b
             inner == BreakerCall(admitted, t, f)
             body == list_subjects_without_entitlement(
                        with_resilient_execution(service_name, inner))
         IN  StateCall(Breaker(admitted.state, inner.breaker.counter,
                               inner.breaker.opened_at),
                       t, body, <<b.state>> \o inner.path)

\* the record of one subject operation: the user id, whether the metering
\* service held the subject before it, the calls made of the client's method
SubjectCall(op, user_id, known, client_calls) ==
    [op |-> op, user_id |-> user_id, known |-> known, client_calls |-> client_calls]

NoSubjectCall == SubjectCall(None, None, FALSE, 0)

\* ------------------------------------------------------------------------
\* The ensure_entitlement_features command
\* (commands/ensure_entitlement_features.py)
\* ------------------------------------------------------------------------
\* the feature key of the settings
FEATURE_KEY == "ai_tokens"

\* the feature_keys arguments of ensure_features: lists of at most two keys,
\* the empty list standing for None too
EnsureKeys == {"", "tokens", FEATURE_KEY}
EnsureArgs ==
    {<<>>} \cup {<<k>> : k \in EnsureKeys}
           \cup {<<k, l>> : k \in EnsureKeys, l \in EnsureKeys}

\* the static and class methods of OpenMeterMeteringClient
ClientClassMethods == {"create_client", "from_default"}

\* OpenMeterMeteringClient.create_clients(): an attribute the class lacks
CreateClients ==
    IF "create_clients" \in ClientClassMethods THEN Return("clients")
    ELSE Raise(Exc("AttributeError", {"create_clients"}, None, None, 0))

\* ExternalServiceException(f"Failed to check feature existence for
\* {feature_key}: {e}")
CheckFailed(feature_key, e) ==
    ExternalServiceException({"Failed to check feature existence for ", feature_key}
                                \cup e.detail, None)

\* feature_exists: the client is built, list_features() is called and not
\* awaited, and `feature_key in features` is evaluated; any exception is
\* raised again as ExternalServiceException
feature_exists(held, feature_key) ==
    LET awaited == FALSE
        made == CreateClients
        listed == ClientCall(awaited, Return(held))
    IN  IF made.kind = "raise" THEN Raise(CheckFailed(feature_key, made.exc))
        ELSE IF ~awaited
        THEN Raise(CheckFailed(feature_key,
                     Exc("TypeError", {"coroutine is not iterable"}, None, None, 0)))
        ELSE Return(feature_key \in listed.value)

\* create_feature of the command: the client is built and create_feature is
\* called and not awaited; any exception is raised again
command_create_feature(held, feature_key) ==
    LET awaited == FALSE
        made == CreateClients
    IN  IF made.kind = "raise" THEN [out |-> made, held |-> held]
        ELSE [out |-> Return(None),
              held |-> IF awaited THEN held \cup {feature_key} ELSE held]

\* the result of ensure_features: what it returned or raised, the features
\* the metering service holds afterwards, the keys create_feature was called
\* with
Ensured(out, held, created) == [out |-> out, held |-> held, created |-> created]

\* the loop of ensure_features over the keys left
RECURSIVE EnsureLoop(_, _, _)
EnsureLoop(held, keys, created) ==
    IF keys = <<>> THEN Ensured(Return(None), held, created)
    ELSE LET e == feature_exists(held, Head(keys))
         IN  IF e.kind = "raise" THEN Ensured(e, held, created)
             ELSE IF e.value THEN EnsureLoop(held, Tail(keys), created)
             ELSE LET c == command_create_feature(held, Head(keys))
                  IN  IF c.out.kind = "raise"
                      THEN Ensured(c.out, held, Append(created, Head(keys)))
                      ELSE EnsureLoop(c.held, Tail(keys), Append(created, Head(keys)))

\* ensure_features(feature_keys): no keys means the key of the settings,
\* empty keys are dropped, nothing is done when none is left
ensure_features(held, feature_keys) ==
    LET given == IF feature_keys = <<>> THEN <<FEATURE_KEY>> ELSE feature_keys
        kept == SelectSeq(given, LAMBDA k : k # "")
    IN  IF kept = <<>> THEN Ensured(Return(None), held, <<>>)
        ELSE EnsureLoop(held, kept, <<>>)

\* the record of one ensure_features run: its argument, the non-empty keys
\* the metering service did not hold before it, its outcome and the keys
\* create_feature was called with
EnsureRun(feature_keys, missing, out, created) ==
    [feature_keys |-> feature_keys, missing |-> missing, out |-> out,
     created |-> created]

NoEnsure == EnsureRun(<<>>, {}, NoOutcome, <<>>)

\* the threads, and a thread's place in get_circuit_breaker(service_name):
\* pc is the line it executes next, held the breaker object it got
Threads == 1 .. NumThreads
ThreadAt(pc, service_name, held) ==
    [pc |-> pc, service_name |-> service_name, held |-> held]
NotCalling == ThreadAt("idle", None, 0)

\* the callers of the concurrent calls
Callers == 1 .. NumCallers

\* a caller inside CircuitBreaker.call: where it is, the state object whose
\* call() it is in, and the counter value it read in _inc_counter
Flight(pc, state, seen) == [pc |-> pc, state |-> state, seen |-> seen]
NotInFlight == Flight("idle", None, 0)

NoCall ==
    [op |-> None, service_name |-> None, fallback_value |-> None,
     pre |-> NewBreaker, raw |-> None, invoked |-> FALSE,
     func |-> NoOutcome, result |-> NoOutcome, path |-> <<>>]

Init ==
    /\ circuit_breakers = [n \in {} |-> NewBreaker]
    /\ now = 0
    /\ calls = 0
    /\ invocations = 0
    /\ run = [n \in Names |-> 0]
    /\ features = {}
    /\ last = NoCall
    /\ registry = [n \in {} |-> 0]
    /\ threads = [t \in Threads |-> NotCalling]
    /\ payments = [id \in {} |-> NoPayment]
    /\ events = 0
    /\ pay_calls = 0
    /\ pay_last = NoPayCall
    /\ subjects = {}
    /\ subj_last = NoSubjectCall
    /\ ensure_last = NoEnsure
    /\ flight = [c \in Callers |-> NotInFlight]
    /\ completed = <<>>
    /\ base = NewBreaker
    /\ recovered = FALSE

\* variant of Invocations: a failing func is invoked again
InvocationsM(r, f) ==
    IF ~r.invoked THEN 0 ELSE IF f.kind = "raise" THEN 2 ELSE 1

\* the number of times the wrapper's one breaker.call(func, *args, **kwargs)
\* invokes func (outcome f)
Invocations(r, f) == IF r.invoked THEN 1 ELSE 0

\* variant of Accounted: one state shared by the breakers of all names
AccountedM(reg, service_name, b) == [m \in DOMAIN reg |-> b]

\* the registry after a call of a wrapper: the wrapper holds the breaker that
\* get_circuit_breaker(service_name) gave its decorator, and breaker.call
\* changes that breaker only
Accounted(reg, service_name, b) == [reg EXCEPT ![service_name] = b]

\* what func(*args, **kwargs) gives inside breaker.call: a synchronous func
\* runs and gives its outcome f; an `async def` func gives a coroutine and
\* has not run
Called(async, f) == IF async THEN Return("coroutine") ELSE f

\* what the caller of wrapper has in the end: a coroutine that wrapper
\* returned is awaited by the caller and gives the operation's outcome f
Awaited(async, out, f) ==
    IF async /\ out = Return("coroutine") THEN f ELSE out

\* the effect of one gated call of func (outcome f) on the state: the
\* wrapper passes func to breaker.call and handles CircuitBreakerError;
\* op "async_op" is an `async def` func given to with_circuit_breaker
Account(op, w, raw, f, reg) ==
    LET n == w.service_name
        async == op = "async_op"
        r == BreakerCall(reg[n], now, Called(async, f))
        result(c) == IF op = "create_feature"
                     THEN with_resilient_execution(n, c)
                     ELSE Awaited(async, with_circuit_breaker(n, w.fallback_value, c), f)
    IN  /\ circuit_breakers' = Accounted(reg, n, r.breaker)
        /\ calls' = calls + 1
        /\ invocations' = invocations + Invocations(r, f)
        /\ run' = [run EXCEPT ![n] = IF ~r.invoked THEN @
                                     ELSE IF f.kind = "raise" THEN @ + 1 ELSE 0]
        /\ last' = CallRecord(op, w, reg[n], raw, f, r, result(r))

\* with_circuit_breaker(service_name, fallback_value)(func): the decorator
\* fetches the breaker of the name, which the first decoration with the name
\* creates; the wrapper it returns holds the name, the fallback value and
\* that breaker
Decorate(service_name) ==
    /\ service_name \notin DOMAIN circuit_breakers
    /\ circuit_breakers' = get_circuit_breaker(circuit_breakers, service_name)
    /\ UNCHANGED <<now, calls, invocations, run, features, last>>
    /\ UNCHANGED auxVars

\* a call of a wrapper that with_circuit_breaker(service_name,
\* fallback_value) produced
Call(service_name, fallback_value, raw) ==
    /\ calls < MaxCalls
    /\ service_name \in DOMAIN circuit_breakers
    /\ Account("op", Wrapper(service_name, fallback_value), raw,
               Operation(raw, service_name), circuit_breakers)
    /\ UNCHANGED <<now, features>>
    /\ UNCHANGED auxVars

\* OpenMeterMeteringClient.create_feature(feature_key) under
\* with_resilient_execution(service_name='OpenMeter')
CreateFeature(feature_key, raw) ==
    /\ calls < MaxCalls
    /\ LET reg == get_circuit_breaker(circuit_breakers, "OpenMeter")
           answer == CreateFeatureRaw(features, feature_key, raw)
       IN  /\ Account("create_feature", Wrapper("OpenMeter", None), answer,
                      create_feature(answer), reg)
           /\ features' = IF last'.invoked /\ answer = "ok"
                          THEN features \cup {feature_key} ELSE features
    /\ UNCHANGED now
    /\ UNCHANGED auxVars

\* time passes
Tick ==
    /\ now + TickStep <= MaxNow
    /\ now' = now + TickStep
    /\ UNCHANGED <<circuit_breakers, calls, invocations, run, features, last>>
    /\ UNCHANGED auxVars

Next ==
    \/ \E n \in Names : Decorate(n)
    \/ \E n \in Names, fb \in Fallbacks, raw \in RawOutcomes : Call(n, fb, raw)
    \/ \E k \in FeatureKeys, raw \in RawOutcomes : CreateFeature(k, raw)
    \/ Tick

Spec == Init /\ [][Next]_vars

\* ------------------------------------------------------------------------
\* Asynchronous operations under with_circuit_breaker
\* ------------------------------------------------------------------------
\* a call of a wrapper that with_circuit_breaker(service_name,
\* fallback_value) produced for an `async def` operation, the caller awaiting
\* what the wrapper returns
CallAsync(service_name, fallback_value, raw) ==
    /\ calls < MaxCalls
    /\ service_name \in DOMAIN circuit_breakers
    /\ Account("async_op", Wrapper(service_name, fallback_value), raw,
               Operation(raw, service_name), circuit_breakers)
    /\ UNCHANGED <<now, features>>
    /\ UNCHANGED auxVars

NextAsync ==
    \/ \E n \in Names : Decorate(n)
    \/ \E n \in Names, fb \in Fallbacks, raw \in SyncOutcomes : Call(n, fb, raw)
    \/ \E n \in Names, fb \in Fallbacks, raw \in AsyncOutcomes : CallAsync(n, fb, raw)
    \/ Tick

SpecAsync == Init /\ [][NextAsync]_vars

\* ------------------------------------------------------------------------
\* get_circuit_breaker called from several threads
\* ------------------------------------------------------------------------
\* the state the registry threads leave alone
mainVars == <<circuit_breakers, now, calls, invocations, run, features, last>>

\* thread t calls get_circuit_breaker(service_name) and evaluates
\* `service_name not in _circuit_breakers`
RegCheck(t, service_name) ==
    /\ threads[t].pc = "idle"
    /\ threads' = [threads EXCEPT ![t] =
          ThreadAt(IF service_name \notin DOMAIN registry THEN "insert" ELSE "return",
                   service_name, 0)]
    /\ UNCHANGED <<registry, mainVars, payVars, subjVars, ensure_last, concVars, recovered>>

\* thread t stores a new CircuitBreaker under the name; the object thread t
\* constructs is identified by t
RegInsert(t) ==
    /\ threads[t].pc = "insert"
    /\ registry' = [n \in DOMAIN registry \cup {threads[t].service_name} |->
                      IF n = threads[t].service_name THEN t ELSE registry[n]]
    /\ threads' = [threads EXCEPT ![t].pc = "return"]
    /\ UNCHANGED <<mainVars, payVars, subjVars, ensure_last, concVars, recovered>>

\* thread t returns _circuit_breakers[service_name]
RegReturn(t) ==
    /\ threads[t].pc = "return"
    /\ threads' = [threads EXCEPT ![t] =
          ThreadAt("done", threads[t].service_name, registry[threads[t].service_name])]
    /\ UNCHANGED <<registry, mainVars, payVars, subjVars, ensure_last, concVars, recovered>>

NextReg ==
    \/ \E t \in Threads, n \in Names : RegCheck(t, n)
    \/ \E t \in Threads : RegInsert(t)
    \/ \E t \in Threads : RegReturn(t)

SpecReg == Init /\ [][NextReg]_vars

\* ------------------------------------------------------------------------
\* The subject service
\* ------------------------------------------------------------------------
\* the state the subject operations leave alone
subjRest == <<now, features, regVars, payVars, ensure_last, concVars, recovered>>

\* a subject service method under
\* with_resilient_execution(service_name='MeteringService'), its body giving b
SubjectAccount(op, user_id, b) ==
    LET reg == get_circuit_breaker(circuit_breakers, "MeteringService")
    IN  /\ Account(op, Wrapper("MeteringService", None), "ok", b.out, reg)
        /\ subjects' = IF last'.invoked THEN b.held ELSE subjects
        /\ subj_last' = SubjectCall(op, user_id, user_id \in subjects,
                                    IF last'.invoked THEN b.client_calls ELSE 0)

\* SubjectService.create_subject(user_id)
CreateSubject(user_id) ==
    /\ calls < MaxCalls
    /\ SubjectAccount("create_subject", user_id, create_subject(subjects, user_id))
    /\ UNCHANGED subjRest

\* SubjectService.delete_subject(user_id)
DeleteSubject(user_id) ==
    /\ calls < MaxCalls
    /\ SubjectAccount("delete_subject", user_id, delete_subject(subjects, user_id))
    /\ UNCHANGED subjRest

\* OpenMeterMeteringClient.upsert_subject awaited by its caller, under
\* with_resilient_execution(service_name='OpenMeter')
UpsertSubject(subject_id, raw) ==
    /\ calls < MaxCalls
    /\ LET reg == get_circuit_breaker(circuit_breakers, "OpenMeter")
       IN  Account("upsert_subject", Wrapper("OpenMeter", None), raw,
                   Operation(raw, "OpenMeter"), reg)
    /\ subjects' = IF last'.invoked /\ raw = "ok"
                   THEN subjects \cup {subject_id} ELSE subjects
    /\ subj_last' = SubjectCall("upsert_subject", subject_id, subject_id \in subjects,
                                IF last'.invoked THEN 1 ELSE 0)
    /\ UNCHANGED subjRest

\* SubjectService.list_subjects()
ListSubjects ==
    /\ calls < MaxCalls
    /\ SubjectAccount("list_subjects", None, list_subjects(subjects))
    /\ UNCHANGED subjRest

\* SubjectService.list_subjects_without_entitlement(): one call by the
\* caller, two wrapped operations on the 'MeteringService' breaker
ListSubjectsWithoutEntitlement ==
    /\ calls < MaxCalls
    /\ LET n == "MeteringService"
           reg == get_circuit_breaker(circuit_breakers, n)
           f == list_subjects(subjects).out
           r == NestedCall(n, reg[n], now, f)
       IN  /\ circuit_breakers' = Accounted(reg, n, r.breaker)
           /\ calls' = calls + 1
           /\ invocations' = invocations + 2 * Invocations(r, f)
           /\ run' = [run EXCEPT ![n] = IF ~r.invoked THEN @
                                        ELSE IF f.kind = "raise" THEN @ + 1 ELSE 0]
           /\ last' = CallRecord("list_subjects_without_entitlement",
                                 Wrapper(n, None), reg[n], "ok", f, r,
                                 with_resilient_execution(n, r))
           /\ subj_last' = SubjectCall("list_subjects_without_entitlement", None,
                                       FALSE, IF r.invoked THEN 1 ELSE 0)
    /\ UNCHANGED <<subjects, subjRest>>

NextSubject ==
    \/ \E u \in UserIds : CreateSubject(u)
    \/ \E u \in UserIds : DeleteSubject(u)
    \/ ListSubjects
    \/ ListSubjectsWithoutEntitlement
    \/ \E u \in SubjectIds, raw \in RawOutcomes : UpsertSubject(u, raw)

SpecSubject == Init /\ [][NextSubject]_vars

\* ------------------------------------------------------------------------
\* The ensure_entitlement_features command
\* ------------------------------------------------------------------------
\* one run of ensure_features(feature_keys)
EnsureFeatures(feature_keys) ==
    LET e == ensure_features(features, feature_keys)
    IN  /\ features' = e.held
        /\ ensure_last' = EnsureRun(feature_keys,
              {feature_keys[i] : i \in DOMAIN feature_keys} \ (features \cup {""}),
              e.out, e.created)
        /\ UNCHANGED <<circuit_breakers, now, calls, invocations, run, last,
                       regVars, payVars, subjVars, concVars, recovered>>

NextEnsure ==
    \/ \E keys \in EnsureArgs : EnsureFeatures(keys)
    \/ \E k \in FeatureKeys, raw \in RawOutcomes : CreateFeature(k, raw)

SpecEnsure == Init /\ [][NextEnsure]_vars

\* ------------------------------------------------------------------------
\* The payment service
\* ------------------------------------------------------------------------
\* the effect of one payment service call with client result c
PayAccount(op, payment_id, amount, c) ==
    /\ pay_calls' = pay_calls + 1
    /\ payments' = c.store
    /\ events' = events + c.sent
    /\ pay_last' = PayCall(op, payment_id, amount, PaymentService(c.out))
    /\ UNCHANGED <<mainVars, regVars, subjVars, ensure_last, concVars, recovered>>

\* PaymentService.process_payment: uuid4() gives an id not in use
ProcessPayment(payment_id, amount, metadata, ingest) ==
    /\ pay_calls < MaxPayCalls
    /\ payment_id \notin DOMAIN payments
    /\ PayAccount("process_payment", payment_id, <<amount>>,
                  process_payment(payments, payment_id, amount, metadata, ingest))

\* PaymentService.get_payment
GetPayment(payment_id) ==
    /\ pay_calls < MaxPayCalls
    /\ PayAccount("get_payment", payment_id, <<>>,
                  Client(Return(get_payment(payments, payment_id)), payments, 0))

\* PaymentService.refund_payment
RefundPayment(payment_id, amount, ingest) ==
    /\ pay_calls < MaxPayCalls
    /\ PayAccount("refund_payment", payment_id, amount,
                  refund_payment(payments, payment_id, amount, ingest))

\* PaymentService.update_payment_status
UpdatePaymentStatus(payment_id, status, ingest) ==
    /\ pay_calls < MaxPayCalls
    /\ PayAccount("update_payment_status", payment_id, <<>>,
                  update_payment_status(payments, payment_id, status, ingest))

NextPay ==
    \/ \E id \in PaymentIds, a \in PayAmounts, m \in EventMetadata,
          i \in IngestOutcomes : ProcessPayment(id, a, m, i)
    \/ \E id \in PaymentIds : GetPayment(id)
    \/ \E id \in PaymentIds, a \in RefundAmounts, i \in IngestOutcomes :
          RefundPayment(id, a, i)
    \/ \E id \in PaymentIds, st \in Statuses, i \in IngestOutcomes :
          UpdatePaymentStatus(id, st, i)

SpecPay == Init /\ [][NextPay]_vars

\* ------------------------------------------------------------------------
\* Calls in flight at the same time on one breaker.  wrapper calls
\* breaker.call(func) with no lock of its own, and aiobreaker holds none:
\* CircuitBreaker.call runs self.state.call, the state object taken when the
\* call enters does before_call, func and the handler, and
\* CircuitMemoryStorage.increment_counter is `self._fail_counter += 1`.
\* ------------------------------------------------------------------------
\* the name whose breaker the callers share
Shared == "OpenMeter"

\* the callers whose call is not over
InFlight == {c \in Callers : flight[c].pc # "idle"}

\* _handle_success run by the state object `state` on the breaker as it is
\* now: reset_counter(), and close() if the object is the half-open state
HandleSuccessIn(state, b) ==
    LET s == HandleSuccess(Breaker(state, b.counter, b.opened_at))
    IN  IF state = "half-open" THEN s ELSE Breaker(b.state, s.counter, s.opened_at)

\* the end of _handle_error run by the state object `state`: the counter
\* read before is stored plus one, and on_failure() of the object opens the
\* breaker (half-open state, or closed state at fail_max)
HandleErrorIn(state, seen, b, t) ==
    LET e == HandleError(Breaker(state, seen, b.opened_at), t, Raise(NoExc))[1]
    IN  IF e.state = "open" THEN e ELSE Breaker(b.state, e.counter, e.opened_at)

\* wrapper line 46 up to the invocation of func: a call on the Open breaker
\* within the timeout is rejected, at or after it half_open() is run and the
\* call goes on in the half-open state; every other call goes on in the
\* state the breaker is in
Admit(c) ==
    /\ Shared \in DOMAIN circuit_breakers
    /\ flight[c].pc = "idle"
    /\ calls < MaxCalls
    /\ Len(completed) + Cardinality(InFlight) < MaxBatch \/ InFlight = {}
    /\ LET b == circuit_breakers[Shared]
           rejected == b.state = "open" /\ StillOpen(b, now)
           admitted == IF b.state = "open" THEN HalfOpen(b) ELSE b
       IN  /\ calls' = calls + 1
           /\ IF rejected
              THEN UNCHANGED <<circuit_breakers, invocations, concVars, recovered>>
              ELSE /\ circuit_breakers' = Accounted(circuit_breakers, Shared, admitted)
                   /\ invocations' = invocations + 1
                   /\ flight' = [flight EXCEPT ![c] = Flight("func", admitted.state, 0)]
                   /\ IF InFlight = {}
                      THEN base' = b /\ completed' = <<>>
                      ELSE UNCHANGED <<base, completed>>
    /\ UNCHANGED <<now, run, features, last>>
    /\ UNCHANGED <<regVars, payVars, subjVars, ensure_last, recovered>>

\* func returns: _handle_success
Succeed(c) ==
    /\ flight[c].pc = "func"
    /\ circuit_breakers' = Accounted(circuit_breakers, Shared,
            HandleSuccessIn(flight[c].state, circuit_breakers[Shared]))
    /\ flight' = [flight EXCEPT ![c] = NotInFlight]
    /\ completed' = Append(completed, <<"return", now>>)
    /\ UNCHANGED <<now, calls, invocations, run, features, last, base>>
    /\ UNCHANGED <<regVars, payVars, subjVars, ensure_last, recovered>>

\* func raises: _handle_error begins, _inc_counter reads the counter
Fail(c) ==
    /\ flight[c].pc = "func"
    /\ flight' = [flight EXCEPT ![c] =
            Flight("error", flight[c].state, circuit_breakers[Shared].counter)]
    /\ completed' = Append(completed, <<"raise", now>>)
    /\ UNCHANGED <<circuit_breakers, now, calls, invocations, run, features, last, base>>
    /\ UNCHANGED <<regVars, payVars, subjVars, ensure_last, recovered>>

\* _inc_counter writes the counter, on_failure of the state object runs
Count(c) ==
    /\ flight[c].pc = "error"
    /\ circuit_breakers' = Accounted(circuit_breakers, Shared,
            HandleErrorIn(flight[c].state, flight[c].seen, circuit_breakers[Shared], now))
    /\ flight' = [flight EXCEPT ![c] = NotInFlight]
    /\ UNCHANGED <<now, calls, invocations, run, features, last, completed, base>>
    /\ UNCHANGED <<regVars, payVars, subjVars, ensure_last, recovered>>

NextConc ==
    \/ Decorate(Shared)
    \/ \E c \in Callers : Admit(c)
    \/ \E c \in Callers : Succeed(c)
    \/ \E c \in Callers : Fail(c)
    \/ \E c \in Callers : Count(c)
    \/ Tick

SpecConc == Init /\ [][NextConc]_vars

\* ------------------------------------------------------------------------
\* Recovery of the dependencies: after a bounded run of calls of any outcome
\* the operations fail no more, time keeps advancing and calls keep being
\* made on every breaker.
\* ------------------------------------------------------------------------
\* some breaker is Open and its timeout has not elapsed
Waiting ==
    \E n \in DOMAIN circuit_breakers :
        circuit_breakers[n].state = "open" /\ StillOpen(circuit_breakers[n], now)

\* the last failure of the dependencies is over
Recover ==
    /\ ~recovered
    /\ recovered' = TRUE
    /\ UNCHANGED <<mainVars, regVars, payVars, subjVars, ensure_last, concVars>>

\* a call of a wrapper whose operation succeeds if it is invoked; the
\* counters of the bounded run are not continued
CallRecovered(service_name, fallback_value) ==
    /\ recovered
    /\ service_name \in DOMAIN circuit_breakers
    /\ LET w == Wrapper(service_name, fallback_value)
           f == Operation("ok", service_name)
           r == BreakerCall(circuit_breakers[service_name], now, f)
       IN  /\ circuit_breakers' = Accounted(circuit_breakers, service_name, r.breaker)
           /\ run' = [run EXCEPT ![service_name] = IF r.invoked THEN 0 ELSE @]
           /\ last' = CallRecord("op", w, circuit_breakers[service_name], "ok", f, r,
                                 with_circuit_breaker(service_name, fallback_value, r))
    /\ UNCHANGED <<now, calls, invocations, features>>
    /\ UNCHANGED auxVars

\* time passes: within the bounded run, and as long as a breaker waits for
\* its timeout
TickLive ==
    /\ now + TickStep <= MaxNow \/ Waiting
    /\ now' = now + TickStep
    /\ UNCHANGED <<circuit_breakers, calls, invocations, run, features, last>>
    /\ UNCHANGED auxVars

NextLive ==
    \/ \E n \in Names : Decorate(n)
    \/ \E n \in Names, fb \in Fallbacks, raw \in SyncOutcomes :
          ~recovered /\ Call(n, fb, raw)
    \/ Recover
    \/ \E n \in Names, fb \in Fallbacks : CallRecovered(n, fb)
    \/ TickLive

\* time keeps advancing and calls keep being attempted on every breaker
Fairness ==
    /\ WF_vars(TickLive)
    /\ \A n \in Names : WF_vars(\E fb \in Fallbacks : CallRecovered(n, fb))

SpecLive == Init /\ [][NextLive]_vars /\ Fairness

\* ------------------------------------------------------------------------
\* Properties
\* ------------------------------------------------------------------------
\* this step is a call through a wrapper of service_name
CallOn(n) == calls' = calls + 1 /\ last'.service_name = n

\* the breaker of n is Open and the reset timeout has not elapsed
OpenWaiting(n) ==
    /\ n \in DOMAIN circuit_breakers
    /\ circuit_breakers[n].state = "open"
    /\ now < circuit_breakers[n].opened_at[1] + timeout_duration

\* the breaker of n is Open and the reset timeout has elapsed
OpenDue(n) ==
    /\ n \in DOMAIN circuit_breakers
    /\ circuit_breakers[n].state = "open"
    /\ now >= circuit_breakers[n].opened_at[1] + timeout_duration

\* the step did not invoke the wrapped operation
Rejected == ~last'.invoked /\ invocations' = invocations

\* C1: a run of fail_max (3) consecutive failing calls through the wrapper
\* leaves the breaker Open, opened at the time of the last of them, and a
\* call made after such a run before the reset timeout has elapsed is
\* rejected without the wrapped operation being invoked.
C1_TripsAndRejects ==
    [][\A n \in Names : CallOn(n) =>
          /\ (last'.invoked /\ run'[n] >= fail_max) =>
                /\ circuit_breakers'[n].state = "open"
                /\ circuit_breakers'[n].opened_at = <<now>>
          /\ (run[n] >= fail_max /\ OpenWaiting(n)) =>
                /\ Rejected
                /\ circuit_breakers'[n] = circuit_breakers[n]]_vars

\* C1 witness: after exactly three failures in a row from a fresh breaker
\* the breaker is Open and the call that followed was rejected
C1_Witness ==
    \E n \in DOMAIN circuit_breakers :
        /\ run[n] = fail_max
        /\ circuit_breakers[n] = Breaker("open", fail_max, <<0>>)
        /\ last.service_name = n /\ last.op = "op" /\ ~last.invoked
        /\ calls = fail_max + 1 /\ invocations = fail_max

\* C2: with a fallback value configured and the breaker Open (reset timeout
\* not elapsed), a call through the wrapper returns exactly the fallback
\* value and the operation's invocation count does not change.
C2_FallbackWhenOpen ==
    [][\A n \in Names :
          (OpenWaiting(n) /\ CallOn(n) /\ last'.fallback_value # None) =>
              /\ last'.result = Return(last'.fallback_value)
              /\ Rejected]_vars

\* C2 witness: a rejected call returned the fallback "fb2"
C2_Witness ==
    /\ last.op = "op" /\ ~last.invoked /\ last.fallback_value = "fb2"
    /\ last.pre.state = "open"
    /\ last.result = Return("fb2")

\* C3: with no fallback configured and the breaker Open, a call through the
\* wrapper raises ExternalServiceException whose service_name is the
\* dependency name of the wrapper, and the operation is not invoked.
C3_UnavailableWhenOpen ==
    [][\A n \in Names :
          (OpenWaiting(n) /\ CallOn(n) /\ last'.fallback_value = None) =>
              /\ last'.result.kind = "raise"
              /\ last'.result.exc.type = "ExternalServiceException"
              /\ last'.result.exc.service_name = n
              /\ last'.result.exc.detail = UnavailableDetail(n)
              /\ Rejected]_vars

\* C3 witness: a rejected call of a wrapper without fallback raised the
\* unavailability failure naming its dependency
C3_Witness ==
    /\ last.op = "op" /\ ~last.invoked /\ last.fallback_value = None
    /\ last.pre.state = "open"
    /\ last.result = Raise(ExternalServiceException(
                               UnavailableDetail("MeteringService"), "MeteringService"))

\* C4: for an Open breaker, a call before reset_timeout has elapsed since
\* opened_at is rejected; a call once it has elapsed moves the breaker to
\* Half-Open and is let through as a probe: the operation is invoked exactly
\* once for that call.
C4_RejectThenProbe ==
    [][\A n \in Names : CallOn(n) =>
          /\ OpenWaiting(n) =>
                /\ Rejected
                /\ last'.path = <<"open">>
                /\ circuit_breakers'[n] = circuit_breakers[n]
          /\ OpenDue(n) =>
                /\ last'.invoked
                /\ invocations' = invocations + 1
                /\ Len(last'.path) = 3
                /\ last'.path[1] = "open" /\ last'.path[2] = "half-open"]_vars

\* C4 witness: a call made exactly reset_timeout after the breaker opened
\* went through Half-Open and invoked the operation
C4_Witness ==
    /\ last.op = "op" /\ last.invoked
    /\ last.pre.state = "open"
    /\ last.pre.opened_at = <<now - timeout_duration>>
    /\ last.path[2] = "half-open"

\* C5: a probe that succeeds leaves the breaker Closed with the failure
\* counter at 0; a probe that fails leaves the breaker Open with opened_at
\* set to the time of that failure, so that a call is rejected until the
\* full reset timeout has elapsed again.
C5_ProbeOutcome ==
    [][\A n \in Names : (OpenDue(n) /\ CallOn(n)) =>
          IF last'.func.kind = "return"
          THEN /\ circuit_breakers'[n].state = "closed"
               /\ circuit_breakers'[n].counter = 0
          ELSE /\ circuit_breakers'[n].state = "open"
               /\ circuit_breakers'[n].opened_at = <<now>>
               /\ circuit_breakers'[n].opened_at[1] > circuit_breakers[n].opened_at[1]]_vars

\* C5 witness: a failed probe re-opened the breaker, the call that followed
\* less than reset_timeout later was rejected
C5_Witness ==
    /\ last.op = "op" /\ ~last.invoked
    /\ last.pre.state = "open"
    /\ last.pre.counter = fail_max + 1
    /\ last.pre.opened_at = <<timeout_duration>>
    /\ now = timeout_duration + TickStep

\* C6: a successful call while the breaker is Closed resets the failure
\* counter to 0, so failures separated by a success do not add up: a breaker
\* is Open only if fail_max operations failed in a row, and while it is
\* Closed its counter is the number of failures since the last success.
C6_SuccessResets ==
    /\ [](\A n \in DOMAIN circuit_breakers :
            /\ circuit_breakers[n].state = "open" => run[n] >= fail_max
            /\ circuit_breakers[n].state = "closed" =>
                  circuit_breakers[n].counter = run[n])
    /\ [][\A n \in Names :
            (CallOn(n) /\ last'.pre.state = "closed" /\ last'.invoked
                /\ last'.func.kind = "return") =>
                /\ circuit_breakers'[n].state = "closed"
                /\ circuit_breakers'[n].counter = 0]_vars

\* C6 witness: a success on a Closed breaker that had counted two failures
\* set the counter back to 0
C6_Witness ==
    \E n \in DOMAIN circuit_breakers :
        /\ last.service_name = n /\ last.op = "op"
        /\ last.pre = Breaker("closed", fail_max - 1, <<>>)
        /\ last.invoked /\ last.func.kind = "return"
        /\ circuit_breakers[n] = Breaker("closed", 0, <<>>)
        /\ run[n] = 0

\* the caller got the fail-fast outcome: the configured fallback value, or
\* the unavailability failure
FailFastOutcome(rec) ==
    \/ rec.fallback_value # None /\ rec.result = Return(rec.fallback_value)
    \/ /\ rec.result.kind = "raise"
       /\ rec.result.exc.detail = UnavailableDetail(rec.service_name)

\* the kinds of failure that are translated: connectivity, timeout, 5xx
DistressRaw == {"connection", "timeout", "http5xx"}

\* C7 (as claimed): the fail-fast outcome is surfaced only on calls where
\* the operation was not invoked, and a call whose operation was invoked and
\* failed gives the caller the classifier's result for that failure.
C7_RejectionDistinct ==
    last.op = "op" =>
        /\ FailFastOutcome(last) => ~last.invoked
        /\ (last.invoked /\ last.func.kind = "raise") => last.result = last.func

\* C8 (as claimed): an invoked operation that fails with a connectivity,
\* timeout or 5xx failure, with no fallback configured, makes the wrapper
\* raise ExternalServiceException carrying the dependency name and the
\* original message, and the failure is counted by the breaker.
C8_TranslatedFailure ==
    (last.op = "op" /\ last.invoked /\ last.raw \in DistressRaw
        /\ last.fallback_value = None) =>
        /\ last.result.kind = "raise"
        /\ last.result.exc.type = "ExternalServiceException"
        /\ last.result.exc.service_name = last.service_name
        /\ RawFailure(last.raw).detail \subseteq last.result.exc.detail
        /\ circuit_breakers[last.service_name].counter = last.pre.counter + 1

\* C9 (as claimed): the failure raised on a fail-fast rejection carries an
\* error code different from the one the failure of a translated operation
\* failure carries.
C9_DistinctErrorCodes ==
    (last.op = "op" /\ ~last.invoked /\ last.result.kind = "raise") =>
        \A raw \in DistressRaw :
            last.result.exc.error_code
                # Operation(raw, last.service_name).exc.error_code

\* C10: a create_feature call that the metering service answers with the
\* "already exists" conflict returns None without raising and does not
\* increment the failure counter of the 'OpenMeter' breaker, which is Closed
\* afterwards: creating a feature again never opens the breaker.
C10_CreateExistingFeature ==
    [][(calls' = calls + 1 /\ last'.op = "create_feature" /\ last'.invoked
          /\ last'.raw = "exists") =>
          /\ last'.result = Return(None)
          /\ circuit_breakers'["OpenMeter"].counter <= last'.pre.counter
          /\ circuit_breakers'["OpenMeter"].state = "closed"
          /\ run'["OpenMeter"] = 0
          /\ features' = features]_vars

\* C10 witness: the feature existed, two failures had been counted, the
\* conflict was swallowed and accounted as a success
C10_Witness ==
    /\ last.op = "create_feature" /\ last.invoked /\ last.raw = "exists"
    /\ "tokens" \in features
    /\ last.pre = Breaker("closed", fail_max - 1, <<>>)
    /\ last.result = Return(None)
    /\ circuit_breakers["OpenMeter"] = Breaker("closed", 0, <<>>)

\* C11: every invocation attempt updates the breaker's accounting exactly
\* once: a call that invoked the operation and saw it return leaves the
\* counter at 0 (one success report), a call that invoked it and saw it fail
\* leaves the counter exactly one above its value before the call (never
\* two), and a call that did not invoke it leaves the breaker as it was.
C11_AccountedOnce ==
    [][\A n \in Names : CallOn(n) =>
          /\ (last'.invoked /\ last'.func.kind = "return") =>
                circuit_breakers'[n].counter = 0
          /\ (last'.invoked /\ last'.func.kind = "raise") =>
                circuit_breakers'[n].counter = last'.pre.counter + 1
          /\ ~last'.invoked => circuit_breakers'[n] = last'.pre
          /\ last'.invoked <=> invocations' = invocations + 1]_vars

\* C11 witness: a failing call on a breaker that had counted one failure
\* left the counter at two
C11_Witness ==
    /\ last.invoked /\ last.func.kind = "raise"
    /\ last.pre = Breaker("closed", 1, <<>>)
    /\ circuit_breakers[last.service_name] = Breaker("closed", 2, <<>>)

\* get_circuit_breaker never removes or replaces the entry of a name: an
\* entry changes only by the accounting of a call on that name, which starts
\* from the entry as it was
EntriesKept ==
    /\ \A n \in DOMAIN circuit_breakers :
          /\ n \in DOMAIN circuit_breakers'
          /\ circuit_breakers'[n] # circuit_breakers[n] =>
                CallOn(n) /\ last'.pre = circuit_breakers[n]
    /\ \A n \in DOMAIN circuit_breakers' \ DOMAIN circuit_breakers :
          \/ circuit_breakers'[n] = NewBreaker
          \/ CallOn(n) /\ last'.pre = NewBreaker

\* C12: get_circuit_breaker is idempotent per name: the first call for a
\* name creates a Closed breaker with counter 0 (threshold 3, timeout 30 s)
\* and touches no other entry, a later call returns the entry with its state
\* as it is, and the entry of a name is never removed or replaced.
C12_RegistryIdempotent ==
    /\ [](\A n \in Names :
            LET first == get_circuit_breaker(circuit_breakers, n)
            IN  /\ n \in DOMAIN first
                /\ get_circuit_breaker(first, n) = first
                /\ n \in DOMAIN circuit_breakers => first = circuit_breakers
                /\ n \notin DOMAIN circuit_breakers =>
                      /\ first[n] = Breaker("closed", 0, <<>>)
                      /\ fail_max = 3 /\ timeout_duration = 30
                      /\ \A m \in DOMAIN circuit_breakers :
                            first[m] = circuit_breakers[m])
    /\ [][EntriesKept]_vars

\* C12 witness: create_feature fetched the 'OpenMeter' breaker again when it
\* was Open, and the call was rejected by the state the registry had kept
C12_Witness ==
    /\ last.op = "create_feature" /\ ~last.invoked
    /\ last.pre.state = "open" /\ last.pre.counter = fail_max
    /\ circuit_breakers["OpenMeter"] = last.pre

\* C14: the layer never retries: one call through the wrapper invokes the
\* wrapped operation at most once, whatever the operation does.
C14_NoRetry ==
    [][calls' = calls + 1 =>
          /\ invocations' <= invocations + 1
          /\ last'.invoked <=> invocations' = invocations + 1]_vars

\* C14 witness: the first call failed and the operation has been invoked once
C14_Witness ==
    /\ calls = 1 /\ invocations = 1
    /\ last.invoked /\ last.func.kind = "raise" /\ last.result.kind = "raise"

\* C19: while a breaker is Open its opening time is set and its failure
\* counter is at least the failure threshold.
C19_OpenInvariant ==
    \A n \in DOMAIN circuit_breakers :
        circuit_breakers[n].state = "open" =>
            /\ circuit_breakers[n].opened_at # <<>>
            /\ circuit_breakers[n].counter >= fail_max

\* C19 witness: a breaker opened again by a failed probe, its counter above
\* the threshold
C19_Witness ==
    \E n \in DOMAIN circuit_breakers :
        /\ circuit_breakers[n].state = "open"
        /\ circuit_breakers[n].counter = fail_max + 1
        /\ circuit_breakers[n].opened_at # <<>>
        /\ circuit_breakers[n].opened_at[1] >= timeout_duration

\* C20: while a breaker is Closed its failure counter is at least 0 and
\* below the failure threshold.
C20_ClosedInvariant ==
    \A n \in DOMAIN circuit_breakers :
        circuit_breakers[n].state = "closed" =>
            /\ 0 <= circuit_breakers[n].counter
            /\ circuit_breakers[n].counter < fail_max

\* C20 witness: a breaker closed by a successful probe, and one that has
\* counted fail_max - 1 failures
C20_Witness ==
    /\ \E n \in DOMAIN circuit_breakers :
          circuit_breakers[n] = Breaker("closed", 0, <<0>>)
    /\ \E n \in DOMAIN circuit_breakers :
          circuit_breakers[n] = Breaker("closed", fail_max - 1, <<>>)

\* C13: when several threads call get_circuit_breaker for the same name for
\* the first time, with other threads running between the membership check
\* and the insertion, no two callers get different breaker objects for the
\* same name.
C13_OneInstancePerName ==
    \A t, u \in Threads :
        (/\ threads[t].pc = "done" /\ threads[u].pc = "done"
         /\ threads[t].service_name = threads[u].service_name) =>
            threads[t].held = threads[u].held

\* this step is a call of op on the payment service
PayCallOf(op) == pay_calls' = pay_calls + 1 /\ pay_last'.op = op

C17_UnknownPayment ==
    [][(/\ PayCallOf("refund_payment") \/ PayCallOf("update_payment_status")
        /\ pay_last'.payment_id \notin DOMAIN payments) =>
            /\ pay_last'.result = Raise(PaymentNotFound(pay_last'.payment_id))
            /\ pay_last'.result.exc.type = "ValueError"
            /\ events' = events
            /\ payments' = payments]_vars

\* C17 witness: with one payment stored, a refund of another id raised
\* ValueError
C17_Witness ==
    /\ pay_last.op = "refund_payment"
    /\ pay_last.payment_id \notin DOMAIN payments
    /\ DOMAIN payments # {} /\ events = 1 /\ pay_calls = 2
    /\ pay_last.result.exc.type = "ValueError"

\* C15: SubjectService.delete_subject for a subject the metering client does
\* not know calls the client's delete_subject once with the subject id and
\* raises ExternalServiceException to the caller; so deleting a subject a
\* second time raises ExternalServiceException.
C15_DeleteUnknownRaises ==
    (/\ subj_last.op = "delete_subject" /\ last.op = "delete_subject"
     /\ last.invoked
     /\ subj_last.user_id # None /\ ~subj_last.known) =>
        /\ subj_last.client_calls = 1
        /\ last.result.kind = "raise"
        /\ last.result.exc.type = "ExternalServiceException"

\* C18: ensure_features(keys) only creates what is missing: it returns
\* normally with every non-empty key of keys in the feature list, and has
\* called create_feature for the keys that were missing and for no other.
C18_EnsureCreatesMissing ==
    (ensure_last.out.kind # "none" /\ ensure_last.feature_keys # <<>>) =>
        /\ ensure_last.out = Return(None)
        /\ \A i \in DOMAIN ensure_last.feature_keys :
              ensure_last.feature_keys[i] # "" =>
                  ensure_last.feature_keys[i] \in features
        /\ {ensure_last.created[i] : i \in DOMAIN ensure_last.created}
              = ensure_last.missing

\* C23: every failure of an invoked operation counts, whatever its kind: a
\* caller-argument error, a connection error, a timeout or a cancellation by
\* the caller each leave the counter one above its value before the call,
\* and fail_max of them in a row leave the breaker Open.
C23_AllFailuresCount ==
    [][\A n \in Names :
          (CallOn(n) /\ last'.invoked /\ last'.func.kind = "raise") =>
              /\ last'.raw \in {"value_error", "connection", "timeout",
                                "http5xx", "conflict", "cancelled"}
              /\ circuit_breakers'[n].counter = last'.pre.counter + 1
              /\ run'[n] >= fail_max => circuit_breakers'[n].state = "open"]_vars

\* C25: an asynchronous operation is accounted as a synchronous one with the
\* same outcome: the breaker after the call and what the caller gets are
\* those of breaker.call on the completed operation, so a failure met at the
\* await adds one to the counter and the third in a row opens the breaker.
C25_AsyncAsSync ==
    [][\A n \in Names :
          (CallOn(n) /\ last'.op = "async_op" /\ last'.invoked) =>
              LET s == BreakerCall(last'.pre, now, last'.func)
              IN  /\ circuit_breakers'[n] = s.breaker
                  /\ last'.result =
                        with_circuit_breaker(n, last'.fallback_value, s)]_vars

C26_Independent ==
    [][\A n \in Names : CallOn(n) =>
          /\ \A m \in DOMAIN circuit_breakers \ {n} :
                circuit_breakers'[m] = circuit_breakers[m]
          /\ ~last'.invoked =>
                /\ n \in DOMAIN circuit_breakers
                /\ circuit_breakers[n].state = "open"]_vars

\* C26 witness: with the breaker of one name Open, a call of the other name
\* was invoked and that breaker is Closed
C26_Witness ==
    \E n, m \in DOMAIN circuit_breakers :
        /\ n # m
        /\ circuit_breakers[m].state = "open"
        /\ last.service_name = n /\ last.invoked
        /\ last.pre.state = "closed"
        /\ circuit_breakers[n].state = "closed"

\* C28: a call rejected because the breaker is Open leaves the breaker's
\* state, counter and opening time as they were, so rejected calls do not
\* extend the timeout window: after any rejected calls, the first call made
\* once opened_at + timeout_duration is reached is admitted as the probe.
C28_RejectedFrame ==
    [][\A n \in Names : CallOn(n) =>
          /\ ~last'.invoked =>
                /\ n \in DOMAIN circuit_breakers
                /\ circuit_breakers'[n] = circuit_breakers[n]
                /\ circuit_breakers[n].state = "open"
          /\ (/\ OpenDue(n)
              /\ last.service_name = n /\ last.op # None /\ ~last.invoked) =>
                /\ last'.invoked
                /\ last'.path[2] = "half-open"
                /\ last'.pre.opened_at = last.pre.opened_at]_vars

\* C28 witness: the breaker opened at time 0, a call was rejected, and the
\* call made after the timeout was admitted as the probe
C28_Witness ==
    /\ calls = fail_max + 2 /\ invocations = fail_max + 1
    /\ last.invoked
    /\ last.pre = Breaker("open", fail_max, <<0>>)
    /\ Len(last.path) >= 2 /\ last.path[2] = "half-open"

\* C30: the payments store changes only after the event was ingested: a
\* process_payment, refund_payment or update_payment_status whose
\* ingest_events fails raises that failure to the caller and leaves the
\* store as it was, no payment added and no status or metadata changed.
C30_StoreAfterIngest ==
    [][/\ payments' # payments =>
            /\ events' = events + 1
            /\ pay_last'.result.kind = "return"
       /\ (/\ pay_calls' = pay_calls + 1
           /\ pay_last'.op \in {"process_payment", "refund_payment",
                                "update_payment_status"}
           /\ pay_last'.result.kind = "raise"
           /\ pay_last'.result.exc.type # "ValueError") =>
            /\ pay_last'.result.exc \in {RawFailure(i) : i \in IngestOutcomes \ {"ok"}}
            /\ payments' = payments
            /\ events' = events]_vars

\* C30 witness: the ingestion of the refund event of a stored payment
\* failed, and the payment is still 'processed'
C30_Witness ==
    /\ pay_last.op = "refund_payment"
    /\ pay_last.result.kind = "raise"
    /\ pay_last.result.exc.type = "ServiceRequestError"
    /\ pay_last.payment_id \in DOMAIN payments
    /\ payments[pay_last.payment_id].status = "processed"
    /\ events = 1

\* C27: one failure of the underlying client call raises the failure counter
\* of a dependency by one even when wrapped operations are nested: a
\* list_subjects_without_entitlement whose inner list_subjects fails leaves
\* the 'MeteringService' counter one above its value before the call.
C27_NestedCountsOnce ==
    [][(/\ calls' = calls + 1
        /\ last'.op = "list_subjects_without_entitlement"
        /\ last'.invoked /\ last'.func.kind = "raise") =>
            circuit_breakers'["MeteringService"].counter
                = last'.pre.counter + 1]_vars

\* the outcomes h, each <<kind, time>>, applied to the breaker b by one call
\* after the other
RECURSIVE OneAtATime(_, _)
OneAtATime(b, h) ==
    IF h = <<>> THEN b
    ELSE OneAtATime(
            BreakerCall(b, h[1][2],
                        IF h[1][1] = "return" THEN Return(None) ELSE Raise(NoExc)).breaker,
            Tail(h))

\* C21: of the callers that call the same breaker after the reset timeout
\* exactly one is admitted as the Half-Open probe, and while its operation is
\* in flight no other call's operation is invoked: at most one operation
\* admitted in the Half-Open state is in flight.
C21_SingleProbe ==
    Cardinality({c \in Callers :
                    flight[c].pc = "func" /\ flight[c].state = "half-open"}) <= 1

\* C22: when the calls in flight have all completed, the state and the
\* failure counter of the breaker are those of applying the same outcomes
\* one at a time in completion order: no increment or reset is lost or
\* applied twice.
C22_Linearizable ==
    (InFlight = {} /\ completed # <<>>) =>
        LET b == circuit_breakers[Shared]
            s == OneAtATime(base, completed)
        IN  b.state = s.state /\ b.counter = s.counter

\* every breaker of the registry is Closed and a call made now invokes its
\* operation
AllClosed ==
    \A n \in DOMAIN circuit_breakers :
        /\ circuit_breakers[n].state = "closed"
        /\ BreakerCall(circuit_breakers[n], now, Return(None)).invoked

\* C29: no breaker stays Open forever once its dependency has recovered: if
\* time keeps advancing, calls keep being attempted and every operation
\* invoked from some point on succeeds, then every breaker eventually is
\* Closed, and from then on every call invokes its operation.
C29_Recovers == recovered ~> []AllClosed

\* a breaker that was Open when its dependency had recovered has been closed
\* by the probe of a later call
C29_Witness ==
    /\ recovered
    /\ last.pre.state = "open" /\ last.invoked
    /\ last.path = <<"open", "half-open", "closed">>
    /\ AllClosed

====
